---- MODULE Spec2Model ----
(***************************************************************************)
(* Hybrid evidence retrieval of the Medical Guideline Assistant:           *)
(* MedicalRetrievalSystem (lexical document list + BM25 index) over a      *)
(* PineconeVectorStore (remote namespace keyed by chunk identifier).       *)
(*                                                                         *)
(* Scores are integers in tenths (1.0 is ScoreOne); a blended score is in  *)
(* hundredths: 0.3 * o + 0.7 * r  is  OriginWeight * o + RerankWeight * r. *)
(* A text is the pair of its first 100 characters (head) and the rest      *)
(* (tail), so page_content[:100] is the head.                              *)
(***************************************************************************)
EXTENDS Integers, Sequences, FiniteSets, TLC

VARIABLES
    documents,  \* MedicalRetrievalSystem.documents: the lexical document list
    bm25,       \* MedicalRetrievalSystem.bm25: NoBm25, or the corpus the index was built on
    store,      \* the remote namespace: vector id -> stored vector, for the ids it holds
    ret,        \* the call in progress: its arguments and what it returned or raised
    constructed, \* the process holds a MedicalRetrievalSystem (its constructor returned)
    adding,     \* an add_documents running statement by statement, or NoAdd
    retrieving  \* a retrieve running stage by stage, or NoRetrieve

vars == <<documents, bm25, store, ret, constructed, adding, retrieving>>

\* No add_documents and no retrieve is part-way through
NoAdd == [pc |-> "none"]
NoRetrieve == [pc |-> "none"]

\* Python's None, for an optional string
None == "None"

\* self.bm25 = None (a built index never has an empty corpus)
NoBm25 == <<>>

\* An optional count: <<>> is None, <<n>> is n
NoK == <<>>

\* ------------------------------------------------------------------ bounds
MaxDocs == 3     \* chunks the lexical document list may hold
MaxBatch == 2    \* chunks of one ingestion batch
MaxK == 2        \* largest explicit candidate-count override

\* --------------------------------------------------------------- constants
MaxRetrievalDocs == 10
OriginWeight == 3
RerankWeight == 7
ScoreOne == 10

Min(a, b) == IF a <= b THEN a ELSE b

Take(s, n) == SubSeq(s, 1, Min(n, Len(s)))

Reverse(s) == [i \in 1..Len(s) |-> s[Len(s) + 1 - i]]

RECURSIVE Perms(_)
Perms(S) ==
    IF S = {} THEN {<<>>}
    ELSE UNION {{<<x>> \o p : p \in Perms(S \ {x})} : x \in S}

\* ------------------------------------------------------------ the universe
\* Texts: ART1 and ART2 share their first 100 characters and differ after them.
TextHIV == [head |-> "HIV is a retrovirus", tail |-> ""]
TextART1 == [head |-> "ART dosing", tail |-> "in pregnancy"]
TextART2 == [head |-> "ART dosing", tail |-> "in children"]
TextPMTCT == [head |-> "Mother-to-child transmission of HIV", tail |-> ""]

Texts == {TextHIV, TextART1, TextART2, TextPMTCT}

\* PopulationType values
PopulationType == {"adult", "pediatric", "elderly", "pregnant", "general"}

\* Chunks (Document: page_content + the ChunkMetadata fields the engine reads).
\* ChunkB re-issues the identifier of ChunkA with other text.
ChunkA == [chunk_id |-> "g_page_1_0", page_content |-> TextHIV, population |-> "general"]
ChunkB == [chunk_id |-> "g_page_1_0", page_content |-> TextART1, population |-> "pregnant"]
ChunkC == [chunk_id |-> "g_page_1_1", page_content |-> TextART2, population |-> "pediatric"]
ChunkD == [chunk_id |-> "g_page_2_0", page_content |-> TextPMTCT, population |-> "pregnant"]

Chunks == {ChunkA, ChunkB, ChunkC, ChunkD}

VectorIds == {c.chunk_id : c \in Chunks}

RECURSIVE SeqsUpTo(_, _)
SeqsUpTo(S, n) ==
    IF n = 0 THEN {<<>>}
    ELSE LET shorter == SeqsUpTo(S, n - 1)
         IN  shorter \cup {Append(s, x) : s \in {t \in shorter : Len(t) = n - 1}, x \in S}

Batches == SeqsUpTo(Chunks, MaxBatch)

\* Queries and the populations and counts a caller may pass
Queries == {"What is HIV?", "ART dosing", "guidelines"}
QueryPopulations == {None, "general", "pediatric"}
KArgs == {NoK} \cup {<<n>> : n \in 0..MaxK}

\* ------------------------------------------------- external scoring models
\* SentenceTransformer.encode: the vector of a text
Encode(text) == [of |-> text]

\* Cosine similarity of the query vector and a stored vector, in tenths
Similarity(query, values) ==
    LET t == values.of IN
    CASE query = "What is HIV?" ->
            (CASE t = TextHIV -> 9 [] t = TextART1 -> 3 [] t = TextART2 -> 3 [] OTHER -> 6)
      [] query = "ART dosing" ->
            (CASE t = TextHIV -> 2 [] t = TextART1 -> 8 [] t = TextART2 -> 7 [] OTHER -> 4)
      [] OTHER ->
            (CASE t = TextHIV -> 4 [] t = TextART1 -> 7 [] t = TextART2 -> 7 [] OTHER -> 4)

\* BM25Okapi.get_scores: the lexical score of one text of the corpus, in tenths
Bm25Score(query, text) ==
    CASE query = "What is HIV?" ->
            (CASE text = TextHIV -> 12 [] text = TextPMTCT -> 7 [] OTHER -> 0)
      [] query = "ART dosing" ->
            (CASE text = TextART1 -> 15 [] text = TextART2 -> 15 [] OTHER -> 0)
      [] OTHER -> 0

\* CrossEncoder.predict: the rerank score of one (query, passage) pair, in tenths
CrossScore(query, text) ==
    CASE query = "What is HIV?" ->
            (CASE text = TextHIV -> 40 [] text = TextPMTCT -> 10 [] OTHER -> -30)
      [] query = "ART dosing" ->
            (CASE text = TextHIV -> -20 [] text = TextART1 -> 35 [] text = TextART2 -> 50
               [] OTHER -> 12)
      [] OTHER ->
            (CASE text = TextHIV -> 10 [] text = TextART1 -> -3 [] text = TextART2 -> 7
               [] OTHER -> 10)

\* ------------------------------------------------------ PineconeVectorStore
\* zip(documents, embeddings): pairs up to the shorter of the two lists
Zip(docs, embeddings) ==
    [i \in 1..Min(Len(docs), Len(embeddings)) |-> <<docs[i], embeddings[i]>>]

\* One vector of the upsert request: id is metadata["chunk_id"], the metadata
\* carries the chunk's fields and its page_content
VectorOf(pair) ==
    [id |-> pair[1].chunk_id, values |-> pair[2], metadata |-> pair[1]]

\* index.upsert: each vector replaces whatever the namespace holds under its id
RECURSIVE Upsert(_, _)
Upsert(st, vectors) ==
    IF vectors = <<>> THEN st
    ELSE LET v == Head(vectors)
         IN  Upsert([id \in DOMAIN st \cup {v.id} |->
                        IF id = v.id THEN [values |-> v.values, metadata |-> v.metadata]
                        ELSE st[id]],
                    Tail(vectors))

\* A namespace that holds nothing
EmptyStore == [id \in {} |-> None]

\* PineconeVectorStore.add_documents
VectorStoreAddDocuments(st, docs, embeddings) ==
    LET pairs == Zip(docs, embeddings)
        vectors == [i \in 1..Len(pairs) |-> VectorOf(pairs[i])]
    IN  IF vectors # <<>> THEN Upsert(st, vectors) ELSE st

\* index.query: up to k matches, best score first; the order among equal
\* scores is the service's choice, so every admissible answer is returned
IndexQuery(query, k) ==
    LET present == DOMAIN store
        score(id) == Similarity(query, store[id].values)
        ranked == {p \in Perms(present) :
                      \A i \in 1..(Len(p) - 1) : score(p[i]) >= score(p[i + 1])}
    IN  {[i \in 1..Min(k, Len(p)) |-> [id |-> p[i], score |-> score(p[i])]] : p \in ranked}

\* PineconeVectorStore.similarity_search_with_score: (Document, distance) pairs
SimilaritySearchWithScore(query, k) ==
    {[i \in 1..Len(m) |-> [doc |-> store[m[i].id].metadata,
                           distance |-> ScoreOne - m[i].score]] : m \in IndexQuery(query, k)}

\* ---------------------------------------------------- MedicalRetrievalSystem
\* _dense_retrieval: distance back to similarity
DenseRetrieval(query, k) ==
    {[i \in 1..Len(r) |-> [doc |-> r[i].doc, score |-> ScoreOne - r[i].distance]] :
        r \in SimilaritySearchWithScore(query, k)}

\* np.argsort(scores): index orders that sort the scores ascending (the order
\* among equal scores is numpy's choice)
Argsort(scores) ==
    {p \in Perms(DOMAIN scores) :
        \A i \in 1..(Len(p) - 1) : scores[p[i]] <= scores[p[i + 1]]}

\* _sparse_retrieval
SparseRetrieval(query, k) ==
    IF bm25 = NoBm25 THEN {<<>>}
    ELSE LET scores == [i \in 1..Len(bm25) |-> Bm25Score(query, bm25[i])]
             results(p) ==
                 LET top_indices == Take(Reverse(p), k)
                     kept == SelectSeq(top_indices, LAMBDA idx : idx <= Len(documents))
                 IN  [i \in 1..Len(kept) |->
                         [doc |-> documents[kept[i]], score |-> scores[kept[i]]]]
         IN  {results(p) : p \in Argsort(scores)}

\* page_content[:100]
Leading100(text) == text.head

\* One loop of _combine_results over one result list
RECURSIVE CombineScan(_, _, _, _)
CombineScan(results, source, seen_content, combined) ==
    IF results = <<>> THEN [seen_content |-> seen_content, combined |-> combined]
    ELSE LET e == Head(results)
             content_hash == Leading100(e.doc.page_content)
         IN  IF content_hash \notin seen_content
             THEN CombineScan(Tail(results), source, seen_content \cup {content_hash},
                      Append(combined, [doc |-> e.doc, score |-> e.score, source |-> source]))
             ELSE CombineScan(Tail(results), source, seen_content, combined)

\* _combine_results with seen_content emptied between the two loops
CombineResultsSeenReset(dense_results, sparse_results) ==
    CombineScan(dense_results, "dense", {}, <<>>).combined
        \o CombineScan(sparse_results, "sparse", {}, <<>>).combined

\* _combine_results that skips the sparse loop when the dense list has entries
CombineResultsDenseOnly(dense_results, sparse_results) ==
    IF dense_results # <<>>
    THEN CombineScan(dense_results, "dense", {}, <<>>).combined
    ELSE CombineScan(sparse_results, "sparse", {}, <<>>).combined

\* _combine_results with the sparse loop run before the dense loop
CombineResultsSparseFirst(dense_results, sparse_results) ==
    LET sp == CombineScan(sparse_results, "sparse", {}, <<>>)
    IN  CombineScan(dense_results, "dense", sp.seen_content, sp.combined).combined

\* _combine_results
CombineResults(dense_results, sparse_results) ==
    LET d == CombineScan(dense_results, "dense", {}, <<>>)
    IN  CombineScan(sparse_results, "sparse", d.seen_content, d.combined).combined

\* The population test of _apply_filters: TRUE when the candidate is kept
PassesPopulation(e, population) ==
    IF population # None /\ population # "general"
    THEN ~(e.doc.population # population /\ e.doc.population # "general")
    ELSE TRUE

\* _apply_filters that appends every candidate
ApplyFiltersKeepAll(docs, population) == docs

\* _apply_filters
ApplyFilters(docs, population) ==
    SelectSeq(docs, LAMBDA e : PassesPopulation(e, population))

\* A descending insertion that puts the new entry before its equals
RECURSIVE InsertBeforeEquals(_, _)
InsertBeforeEquals(sorted, e) ==
    IF sorted = <<>> THEN <<e>>
    ELSE IF Head(sorted).score > e.score
         THEN <<Head(sorted)>> \o InsertBeforeEquals(Tail(sorted), e)
         ELSE <<e>> \o sorted

\* list.sort(key=score, reverse=True): stable, equal scores keep their order
RECURSIVE InsertDescending(_, _)
InsertDescending(sorted, e) ==
    IF sorted = <<>> THEN <<e>>
    ELSE IF Head(sorted).score >= e.score
         THEN <<Head(sorted)>> \o InsertDescending(Tail(sorted), e)
         ELSE <<e>> \o sorted

RECURSIVE SortDescending(_)
SortDescending(s) ==
    IF s = <<>> THEN <<>>
    ELSE InsertDescending(SortDescending(SubSeq(s, 1, Len(s) - 1)), s[Len(s)])

\* final_score = 0.3 * original_score + 0.7 * rerank_scores[i]
FinalScore(original_score, rerank_score) ==
    OriginWeight * original_score + RerankWeight * rerank_score

\* _rerank without the final sort
RerankUnsorted(query, docs) ==
    [i \in 1..Len(docs) |->
        [doc |-> docs[i].doc,
         score |-> FinalScore(docs[i].score, CrossScore(query, docs[i].doc.page_content))]]

\* _rerank that reads the rerank scores from the other end of the list
RerankMisaligned(query, docs) ==
    IF docs = <<>> THEN <<>>
    ELSE LET rerank_scores == [i \in 1..Len(docs) |-> CrossScore(query, docs[i].doc.page_content)]
             final_results == [i \in 1..Len(docs) |->
                                  [doc |-> docs[i].doc,
                                   score |-> FinalScore(docs[i].score,
                                                        rerank_scores[Len(docs) + 1 - i])]]
         IN  SortDescending(final_results)

\* _rerank
Rerank(query, docs) ==
    IF docs = <<>> THEN <<>>
    ELSE LET rerank_scores == [i \in 1..Len(docs) |-> CrossScore(query, docs[i].doc.page_content)]
             final_results == [i \in 1..Len(docs) |->
                                  [doc |-> docs[i].doc,
                                   score |-> FinalScore(docs[i].score, rerank_scores[i])]]
         IN  SortDescending(final_results)

\* k = k or settings.max_retrieval_docs
EffectiveK(k) == IF k = NoK \/ k[1] = 0 THEN MaxRetrievalDocs ELSE k[1]

\* Step 6 of retrieve without the [:k] slice
ToRetrievedDocumentsAll(reranked_docs, k) ==
    [i \in 1..Len(reranked_docs) |->
        [content |-> reranked_docs[i].doc.page_content,
         metadata |-> [chunk_id |-> reranked_docs[i].doc.chunk_id,
                       population |-> reranked_docs[i].doc.population],
         relevance_score |-> reranked_docs[i].score,
         rerank_score |-> reranked_docs[i].score]]

\* Step 6 of retrieve with rerank_score left out of the record (0 stands for
\* the field's default)
ToRetrievedDocumentsUnscored(reranked_docs, k) ==
    [i \in 1..Min(k, Len(reranked_docs)) |->
        [content |-> reranked_docs[i].doc.page_content,
         metadata |-> [chunk_id |-> reranked_docs[i].doc.chunk_id,
                       population |-> reranked_docs[i].doc.population],
         relevance_score |-> reranked_docs[i].score,
         rerank_score |-> 0]]

\* Step 6 of retrieve: reranked_docs[:k] as RetrievedDocument records
ToRetrievedDocuments(reranked_docs, k) ==
    [i \in 1..Min(k, Len(reranked_docs)) |->
        [content |-> reranked_docs[i].doc.page_content,
         metadata |-> [chunk_id |-> reranked_docs[i].doc.chunk_id,
                       population |-> reranked_docs[i].doc.population],
         relevance_score |-> reranked_docs[i].score,
         rerank_score |-> reranked_docs[i].score]]

\* Steps 3 to 6 of retrieve with the fused list cut to k before the filter
RetrievePipelineCutFirst(query, population, k, dense_docs, sparse_docs) ==
    LET combined_docs == Take(CombineResults(dense_docs, sparse_docs), k)
        filtered_docs == ApplyFilters(combined_docs, population)
        reranked_docs == Rerank(query, filtered_docs)
    IN  ToRetrievedDocuments(reranked_docs, k)

\* Steps 3 to 6 of retrieve: fuse, filter, rerank, truncate and convert
RetrievePipeline(query, population, k, dense_docs, sparse_docs) ==
    LET combined_docs == CombineResults(dense_docs, sparse_docs)
        filtered_docs == ApplyFilters(combined_docs, population)
        reranked_docs == Rerank(query, filtered_docs)
    IN  ToRetrievedDocuments(reranked_docs, k)

\* get_document_count
GetDocumentCount == Len(documents)

\* ---------------------------------------------------------------- the calls
Idle == [op |-> "idle"]

\* add_documents that replaces the listed documents carrying an identifier of
\* the batch instead of appending
AddDocumentsRunReplacing(docs, fail) ==
    LET kept == SelectSeq(documents,
                    LAMBDA d : \A i \in 1..Len(docs) : docs[i].chunk_id # d.chunk_id)
        extended == kept \o docs
        corpus == [i \in 1..Len(extended) |-> extended[i].page_content]
        upserted == VectorStoreAddDocuments(store, docs,
                        [i \in 1..Len(docs) |-> Encode(docs[i].page_content)])
    IN  IF fail = "encode" \/ fail = "upsert"
        THEN [documents |-> documents, bm25 |-> bm25, store |-> store, status |-> "error"]
        ELSE IF fail = "rebuild" \/ corpus = <<>>
        THEN [documents |-> extended, bm25 |-> bm25, store |-> upserted, status |-> "error"]
        ELSE [documents |-> extended, bm25 |-> corpus, store |-> upserted, status |-> "ok"]

\* The state a run of add_documents(docs) leaves. fail names the call that
\* raises: "encode" (embedding model), "upsert" (the index rejects the request),
\* "rebuild" (BM25Okapi raises), or "none". BM25Okapi also raises on an empty
\* corpus (it divides by the corpus size).
AddDocumentsRun(docs, fail) ==
    LET texts == [i \in 1..Len(docs) |-> docs[i].page_content]
        embeddings == [i \in 1..Len(texts) |-> Encode(texts[i])]
        upserted == VectorStoreAddDocuments(store, docs, embeddings)
        extended == documents \o docs
        corpus == [i \in 1..Len(extended) |-> extended[i].page_content]
    IN  IF fail = "encode" \/ fail = "upsert"
        THEN [documents |-> documents, bm25 |-> bm25, store |-> store, status |-> "error"]
        ELSE IF fail = "rebuild" \/ corpus = <<>>
        THEN [documents |-> extended, bm25 |-> bm25, store |-> upserted, status |-> "error"]
        ELSE [documents |-> extended, bm25 |-> corpus, store |-> upserted, status |-> "ok"]

FailuresOfAdd(docs) ==
    {"none", "encode", "rebuild"} \cup (IF docs # <<>> THEN {"upsert"} ELSE {})

\* MedicalRetrievalSystem.add_documents
AddDocuments(docs, fail) ==
    /\ ret = Idle
    /\ constructed
    /\ UNCHANGED <<constructed, adding, retrieving>>
    /\ Len(documents) + Len(docs) <= MaxDocs
    /\ LET run == AddDocumentsRun(docs, fail)
       IN  /\ documents' = run.documents
           /\ bm25' = run.bm25
           /\ store' = run.store
           /\ ret' = [op |-> "add_documents", batch |-> docs, status |-> run.status]

\* The chunks process_pdf makes of one file carry pairwise distinct identifiers
PdfBatches ==
    {b \in Batches : \A i, j \in 1..Len(b) : i # j => b[i].chunk_id # b[j].chunk_id}

\* MedicalGuidelineAssistant.add_guideline_document: False when reading the
\* file or add_documents raises, True otherwise
AddGuidelineDocument(docs, fail) ==
    /\ ret = Idle
    /\ constructed
    /\ UNCHANGED <<constructed, adding, retrieving>>
    /\ Len(documents) + Len(docs) <= MaxDocs
    /\ IF fail = "pdf"
       THEN /\ UNCHANGED <<documents, bm25, store>>
            /\ ret' = [op |-> "add_guideline_document", batch |-> docs, returned |-> FALSE]
       ELSE LET run == AddDocumentsRun(docs, fail)
            IN  /\ documents' = run.documents
                /\ bm25' = run.bm25
                /\ store' = run.store
                /\ ret' = [op |-> "add_guideline_document", batch |-> docs,
                           returned |-> (run.status = "ok")]

\* settings.pinecone_api_key and settings.pinecone_host: unset, empty or set
ValidKey == "pc-key"
ValidHost == "https://index.pinecone.io"
ApiKeys == {None, "", ValidKey}
Hosts == {None, "", ValidHost}

\* Python's "not x" for an optional string
Falsy(x) == x = None \/ x = ""

\* PineconeVectorStore.__init__ that builds the client without looking at
\* its arguments
PineconeVectorStoreInitUnchecked(api_key, host) ==
    [raised |-> FALSE, client |-> TRUE, index |-> TRUE]

\* PineconeVectorStore.__init__: raised, and whether the client and the index
\* handle were created
PineconeVectorStoreInit(api_key, host) ==
    IF Falsy(api_key) \/ Falsy(host)
    THEN [raised |-> TRUE, client |-> FALSE, index |-> FALSE]
    ELSE [raised |-> FALSE, client |-> TRUE, index |-> TRUE]

\* MedicalRetrievalSystem.__init__: the embedding model is loaded first, then
\* the vector store is built, then the reranker is loaded
MedicalRetrievalSystemInit(api_key, host) ==
    LET vector_store == PineconeVectorStoreInit(api_key, host)
    IN  [raised |-> vector_store.raised,
         embeddings_model |-> TRUE,
         client |-> vector_store.client,
         index |-> vector_store.index,
         reranker |-> ~vector_store.raised]

\* MedicalRetrievalSystem.__init__ in a new process over the same namespace;
\* when it raises the process holds no system
NewSystem(api_key, host) ==
    /\ ret = Idle
    /\ LET init == MedicalRetrievalSystemInit(api_key, host)
       IN  /\ constructed' = ~init.raised
           /\ ret' = [op |-> "new_system", api_key |-> api_key, host |-> host,
                      status |-> (IF init.raised THEN "error" ELSE "ok"),
                      client |-> init.client, index |-> init.index]
    /\ documents' = <<>>
    /\ bm25' = NoBm25
    /\ UNCHANGED <<store, adding, retrieving>>

\* What a metadata filter may name: a key of the chunk metadata or another key
MetadataFilters ==
    {{}, {<<"population", "pregnant">>}, {<<"chunk_id", "g_page_1_0">>},
     {<<"population", "general">>, <<"chunk_id", "g_page_1_0">>}, {<<"section", "dosing">>}}

\* key in doc.metadata and doc.metadata[key] == value
MetadataMatches(doc, key, value) ==
    \/ key = "population" /\ doc.population = value
    \/ key = "chunk_id" /\ doc.chunk_id = value

\* search_by_metadata
SearchByMetadata(filters) ==
    SelectSeq(documents, LAMBDA doc : \A f \in filters : MetadataMatches(doc, f[1], f[2]))

SearchByMetadataCall(filters) ==
    /\ ret = Idle
    /\ constructed
    /\ ret' = [op |-> "search_by_metadata", filters |-> filters,
               result |-> SearchByMetadata(filters)]
    /\ UNCHANGED <<documents, bm25, store, constructed, adding, retrieving>>

\* The collection after a retrieve whose similarity search pops page_content
\* from the metadata the namespace holds, not from its own copy of the reply
RetrieveLeavesPopped(dense_docs) ==
    LET matched == {dense_docs[i].doc.chunk_id : i \in 1..Len(dense_docs)}
    IN  [documents |-> documents,
         bm25 |-> bm25,
         store |-> [id \in DOMAIN store |->
                       IF id \in matched
                       THEN [store[id] EXCEPT !.metadata.page_content =
                                                  [head |-> "", tail |-> ""]]
                       ELSE store[id]]]

\* The collection after a retrieve given the matches its dense search got:
\* md.pop works on the reply of index.query, the lexical documents are only
\* read, and every list retrieve builds is local to the call
RetrieveLeaves(dense_docs) ==
    [documents |-> documents, bm25 |-> bm25, store |-> store]

\* MedicalRetrievalSystem.retrieve, every stage succeeding
Retrieve(query, population, k_arg) ==
    /\ ret = Idle
    /\ constructed
    /\ UNCHANGED <<constructed, adding, retrieving>>
    /\ LET k == EffectiveK(k_arg)
       IN  \E dense_docs \in DenseRetrieval(query, k * 2),
              sparse_docs \in SparseRetrieval(query, k * 2) :
            /\ ret' = [op |-> "retrieve", status |-> "ok", query |-> query,
                       population |-> population, k |-> k_arg,
                       dense |-> dense_docs, sparse |-> sparse_docs,
                       result |-> RetrievePipeline(query, population, k,
                                                   dense_docs, sparse_docs)]
            /\ documents' = RetrieveLeaves(dense_docs).documents
            /\ bm25' = RetrieveLeaves(dense_docs).bm25
            /\ store' = RetrieveLeaves(dense_docs).store

\* retrieve with every backend failure caught and answered by an empty list
RetrieveOutcomeSwallowing(query, population, k, fail, dense_docs, sparse_docs) ==
    IF \/ fail \in {"encode", "query"}
       \/ fail = "predict"
          /\ ApplyFilters(CombineResults(dense_docs, sparse_docs), population) # <<>>
    THEN [raised |-> FALSE, result |-> <<>>]
    ELSE [raised |-> FALSE,
          result |-> RetrievePipeline(query, population, k, dense_docs, sparse_docs)]

\* What retrieve does when the call named by fail raises ("encode": the
\* embedding model, "query": index.query, "predict": the reranker, which is
\* called only for a non-empty filtered list): nothing in retrieve, in
\* _dense_retrieval or in similarity_search_with_score catches it
RetrieveOutcome(query, population, k, fail, dense_docs, sparse_docs) ==
    IF \/ fail \in {"encode", "query"}
       \/ fail = "predict"
          /\ ApplyFilters(CombineResults(dense_docs, sparse_docs), population) # <<>>
    THEN [raised |-> TRUE, result |-> <<>>]
    ELSE [raised |-> FALSE,
          result |-> RetrievePipeline(query, population, k, dense_docs, sparse_docs)]

\* retrieve with a backend call raising
RetrieveRaises(query, population, k_arg, fail) ==
    /\ ret = Idle
    /\ constructed
    /\ UNCHANGED <<constructed, adding, retrieving>>
    /\ LET k == EffectiveK(k_arg)
           fetched == fail = "predict"
       IN  \E dense_docs \in (IF fetched THEN DenseRetrieval(query, k * 2) ELSE {<<>>}),
              sparse_docs \in (IF fetched THEN SparseRetrieval(query, k * 2) ELSE {<<>>}) :
               /\ fetched => ApplyFilters(CombineResults(dense_docs, sparse_docs),
                                          population) # <<>>
               /\ LET out == RetrieveOutcome(query, population, k, fail,
                                             dense_docs, sparse_docs)
                  IN  ret' = IF out.raised
                             THEN [op |-> "retrieve", status |-> "error", query |-> query,
                                   population |-> population, k |-> k_arg, raised |-> fail]
                             ELSE [op |-> "retrieve", status |-> "ok", query |-> query,
                                   population |-> population, k |-> k_arg, raised |-> fail,
                                   dense |-> dense_docs, sparse |-> sparse_docs,
                                   result |-> out.result]
               /\ documents' = RetrieveLeaves(dense_docs).documents
               /\ bm25' = RetrieveLeaves(dense_docs).bm25
               /\ store' = RetrieveLeaves(dense_docs).store

\* -------------------------------------------- MedicalGuidelineAssistant
\* The questions put to process_query
UserQueries == Queries \cup {"hello", "Should I take ART?", "symptoms of HIV"}

\* MedicalQueryAnalyzer.analyze_query on these questions: "hello" is a
\* greeting, "Should I" is a risk pattern (and "should" a recommendation
\* word), "symptoms" a diagnosis word; no question names a population
AnalyzeQuery(query) ==
    CASE query = "hello" ->
            [intent |-> "conversational", is_safe |-> TRUE, risk_factors |-> <<>>,
             population |-> "general"]
      [] query = "Should I take ART?" ->
            [intent |-> "recommendation", is_safe |-> FALSE,
             risk_factors |-> <<"Pattern: should I">>, population |-> "general"]
      [] query = "symptoms of HIV" ->
            [intent |-> "diagnosis", is_safe |-> TRUE, risk_factors |-> <<>>,
             population |-> "general"]
      [] OTHER ->
            [intent |-> "definition", is_safe |-> TRUE, risk_factors |-> <<>>,
             population |-> "general"]

\* 'hiv' in query_analysis.original_query.lower()
MentionsHiv(query) == query \in {"What is HIV?", "symptoms of HIV"}

\* len(content) of a text without surrounding blanks
TextLen(text) == Len(text.head) + Len(text.tail)

\* The texts hold no full stop: each is one sentence, kept when it is longer
\* than 15 characters
HasSentences(text) == TextLen(text) > 15

\* A sentence holds one of 'hiv', 'aids', 'immune', 'treatment',
\* 'transmission', 'virus'
HasKeyword(text) == text \in {TextHIV, TextPMTCT}

\* len(" ".join(sentences)) for a list of contents
RECURSIVE JoinedLen(_)
JoinedLen(docs) ==
    IF docs = <<>> THEN 0
    ELSE TextLen(Head(docs).content)
             + (IF Len(docs) > 1 THEN 1 + JoinedLen(Tail(docs)) ELSE 0)

\* _generate_simple_answer over the top 3 documents: the template used, the
\* answer's length in characters, and whether it holds one of the citation
\* phrases of _calculate_confidence. The opening line has 29 characters, the
\* HIV sentence 91, the stock HIV ending 215 and the fallback answer 165.
SimpleAnswer(query, retrieved_docs) ==
    LET top == Take(retrieved_docs, 3)
        best_content == SelectSeq(top, LAMBDA d : HasSentences(d.content))
        key_points == SelectSeq(best_content,
                                LAMBDA d : HasKeyword(d.content) /\ TextLen(d.content) > 20)
    IN  IF best_content # <<>> /\ MentionsHiv(query)
        THEN [template |-> "According to WHO guidelines: HIV",
              length |-> (IF key_points # <<>>
                          THEN 29 + 91 + JoinedLen(Take(key_points, 3)) + 1
                          ELSE 29 + 91 + 215),
              cites |-> TRUE]
        ELSE IF best_content # <<>>
        THEN [template |-> "According to WHO guidelines",
              length |-> 29 + JoinedLen(Take(best_content, 2)) + 1, cites |-> TRUE]
        ELSE [template |-> "Based on WHO guidelines", length |-> 165, cites |-> FALSE]

\* _extract_citations: one citation for each of the top 3 documents
ExtractCitations(retrieved_docs) ==
    [i \in 1..Min(3, Len(retrieved_docs)) |-> [quote_of |-> retrieved_docs[i].content]]

\* _calculate_confidence in hundredths, rounded to the nearest: the mean of
\* min(n/3, 1), the average relevance, min(len(answer)/300, 1) and the
\* citation factor (relevance scores are in hundredths), which is
\* numerator / (12 * n)
CalculateConfidence(answer, retrieved_docs) ==
    IF retrieved_docs = <<>> THEN 0
    ELSE LET n == Len(retrieved_docs)
             RECURSIVE Sum(_)
             Sum(i) == IF i = 0 THEN 0 ELSE retrieved_docs[i].relevance_score + Sum(i - 1)
             citation_factor == IF answer.cites THEN 100 ELSE 70
             numerator == 100 * Min(n, 3) * n + 3 * Sum(n)
                              + n * Min(answer.length, 300) + 3 * n * citation_factor
         IN  (2 * numerator + 12 * n) \div (24 * n)

\* generate_answer for a non-empty document list
GenerateAnswer(query, retrieved_docs) ==
    LET answer == SimpleAnswer(query, retrieved_docs)
    IN  [answer |-> answer,
         citations |-> ExtractCitations(retrieved_docs),
         confidence |-> CalculateConfidence(answer, retrieved_docs)]

\* validate_response: none of the answer templates and none of the texts
\* holds an unsafe phrase, so the verdict rests on the intent and on the
\* query's own screening
ValidateResponse(query_analysis, answer) ==
    LET intent_violations ==
            IF query_analysis.intent \in {"diagnosis", "treatment"}
            THEN <<"Unsafe intent">> ELSE <<>>
        violations ==
            intent_violations
                \o (IF query_analysis.is_safe THEN <<>> ELSE query_analysis.risk_factors)
    IN  [is_safe |-> (intent_violations = <<>> /\ query_analysis.is_safe),
         violations |-> violations]

\* _create_conversational_response
CreateConversationalResponse(query) ==
    [kind |-> "conversational", query |-> query, answer |-> "conversational answer",
     citations |-> <<>>, safety_check |-> [is_safe |-> TRUE, violations |-> <<>>],
     confidence_score |-> 100, retrieved_documents |-> <<>>]

\* _create_refusal_response; without a safety check the response carries
\* SafetyCheck(is_safe=False, violations=query_analysis.risk_factors)
RefusalCheck(query_analysis) ==
    [is_safe |-> FALSE, violations |-> query_analysis.risk_factors]

CreateRefusalResponse(query, safety_check) ==
    [kind |-> "refusal", query |-> query, answer |-> "refusal answer",
     citations |-> <<>>, safety_check |-> safety_check,
     confidence_score |-> 0, retrieved_documents |-> <<>>]

\* _create_no_evidence_response
CreateNoEvidenceResponse(query) ==
    [kind |-> "no_evidence", query |-> query, answer |-> "no evidence answer",
     citations |-> <<>>, safety_check |-> [is_safe |-> TRUE, violations |-> <<>>],
     confidence_score |-> 0, retrieved_documents |-> <<>>]

\* _create_error_response
CreateErrorResponse(query) ==
    [kind |-> "error", query |-> query, answer |-> "error answer",
     citations |-> <<>>,
     safety_check |-> [is_safe |-> TRUE, violations |-> <<"System error">>],
     confidence_score |-> 0, retrieved_documents |-> <<>>]

\* The outcomes of a block of code: it raised, or it returned a response
Raised == [raised |-> TRUE, response |-> [kind |-> "none"]]
Returned(response) == [raised |-> FALSE, response |-> response]

\* An outcome together with the components the run has called, in order
WithCalls(outcome, calls) ==
    [raised |-> outcome.raised, response |-> outcome.response, calls |-> calls]

\* process_query without the early safety check of step 3
UnsafeQueryNever(query_analysis) == FALSE

\* not query_analysis.is_safe (line 51)
UnsafeQuery(query_analysis) == ~query_analysis.is_safe

\* process_query that returns the answer whatever the safety check says
FailedValidationNever(safety_check) == FALSE

\* not safety_check.is_safe (line 76)
FailedValidation(safety_check) == ~safety_check.is_safe

\* The try block of process_query (lines 41 to 92); fail names the call that
\* raises: "analysis", a backend call of retrieve, "generate" or "validate"
ProcessQueryTry(query, fail, dense_docs, sparse_docs) ==
    IF fail = "analysis" THEN WithCalls(Raised, <<"analyze_query">>)
    ELSE LET query_analysis == AnalyzeQuery(query) IN
    IF query_analysis.intent = "conversational"
    THEN WithCalls(Returned(CreateConversationalResponse(query)), <<"analyze_query">>)
    ELSE IF UnsafeQuery(query_analysis)
    THEN WithCalls(Returned(CreateRefusalResponse(query, RefusalCheck(query_analysis))),
                   <<"analyze_query">>)
    ELSE LET retrieval == RetrieveOutcome(query, query_analysis.population,
                                          EffectiveK(NoK), fail, dense_docs, sparse_docs) IN
    IF retrieval.raised THEN WithCalls(Raised, <<"analyze_query", "retrieve">>)
    ELSE IF retrieval.result = <<>>
    THEN WithCalls(Returned(CreateNoEvidenceResponse(query)), <<"analyze_query", "retrieve">>)
    ELSE IF fail = "generate"
    THEN WithCalls(Raised, <<"analyze_query", "retrieve", "generate_answer">>)
    ELSE LET generated == GenerateAnswer(query, retrieval.result)
             all_calls == <<"analyze_query", "retrieve", "generate_answer",
                            "validate_response">> IN
    IF fail = "validate" THEN WithCalls(Raised, all_calls)
    ELSE LET safety_check == ValidateResponse(query_analysis, generated.answer) IN
    IF FailedValidation(safety_check)
    THEN WithCalls(Returned(CreateRefusalResponse(query, safety_check)), all_calls)
    ELSE WithCalls(Returned([kind |-> "answer", query |-> query,
                             answer |-> generated.answer.template,
                             citations |-> generated.citations,
                             safety_check |-> safety_check,
                             confidence_score |-> generated.confidence,
                             retrieved_documents |-> retrieval.result]),
                   all_calls)

\* A try block whose exceptions are left to the caller
NotCaught(outcome, query) == outcome

\* except Exception (lines 94 to 96): the error response is returned
Caught(outcome, query) ==
    IF outcome.raised
    THEN [outcome EXCEPT !.raised = FALSE, !.response = CreateErrorResponse(query)]
    ELSE outcome

\* POST /query: 200 with the response's fields, 500 when process_query raises
HttpStatus(outcome) == IF outcome.raised THEN 500 ELSE 200

\* The stage named by fail is reached by this query on this corpus
Reaches(query, fail, dense_docs, sparse_docs) ==
    LET query_analysis == AnalyzeQuery(query)
        retrieving_query ==
            query_analysis.intent # "conversational" /\ ~UnsafeQuery(query_analysis)
    IN  CASE fail \in {"none", "analysis"} -> TRUE
          [] fail \in {"encode", "query"} -> retrieving_query
          [] fail = "predict" ->
                /\ retrieving_query
                /\ ApplyFilters(CombineResults(dense_docs, sparse_docs),
                                query_analysis.population) # <<>>
          [] OTHER ->
                /\ retrieving_query
                /\ RetrievePipeline(query, query_analysis.population, EffectiveK(NoK),
                                    dense_docs, sparse_docs) # <<>>

ProcessQueryFailures == {"none", "analysis", "encode", "query", "predict", "generate", "validate"}

\* MedicalGuidelineAssistant.process_query, as POST /query calls it
ProcessQuery(query, fail) ==
    /\ ret = Idle
    /\ constructed
    /\ LET query_analysis == AnalyzeQuery(query)
           fetched == /\ fail \notin {"analysis", "encode", "query"}
                      /\ query_analysis.intent # "conversational"
                      /\ ~UnsafeQuery(query_analysis)
           k == EffectiveK(NoK)
       IN  \E dense_docs \in (IF fetched THEN DenseRetrieval(query, k * 2) ELSE {<<>>}),
              sparse_docs \in (IF fetched THEN SparseRetrieval(query, k * 2) ELSE {<<>>}) :
               /\ Reaches(query, fail, dense_docs, sparse_docs)
               /\ LET out == Caught(ProcessQueryTry(query, fail, dense_docs, sparse_docs),
                                    query)
                  IN  ret' = [op |-> "process_query", query |-> query, fault |-> fail,
                              raised |-> out.raised, response |-> out.response,
                              calls |-> out.calls, http_status |-> HttpStatus(out)]
    /\ UNCHANGED <<documents, bm25, store, constructed, adding, retrieving>>

\* The call has returned to its caller, which issues the next command
NextCommand ==
    /\ ret # Idle
    /\ ret' = Idle
    /\ UNCHANGED <<documents, bm25, store, constructed, adding, retrieving>>

Init ==
    /\ documents = <<>>
    /\ bm25 = NoBm25
    /\ store = EmptyStore
    /\ ret = Idle
    /\ constructed = TRUE
    /\ adding = NoAdd
    /\ retrieving = NoRetrieve

Next ==
    \/ \E docs \in Batches : \E fail \in FailuresOfAdd(docs) : AddDocuments(docs, fail)
    \/ \E docs \in PdfBatches : \E fail \in FailuresOfAdd(docs) \cup {"pdf"} :
           AddGuidelineDocument(docs, fail)
    \/ \E api_key \in ApiKeys, host \in Hosts : NewSystem(api_key, host)
    \/ \E filters \in MetadataFilters : SearchByMetadataCall(filters)
    \/ \E query \in Queries, population \in QueryPopulations, k_arg \in KArgs :
           Retrieve(query, population, k_arg)
    \/ \E query \in Queries, population \in QueryPopulations, k_arg \in KArgs :
           \E fail \in {"encode", "query", "predict"} :
               RetrieveRaises(query, population, k_arg, fail)
    \/ \E query \in UserQueries, fail \in ProcessQueryFailures : ProcessQuery(query, fail)
    \/ NextCommand

Spec == Init /\ [][Next]_vars

\* The runs in which no external call raises
NextNoFailure ==
    \/ \E docs \in Batches : AddDocuments(docs, "none")
    \/ \E docs \in PdfBatches : AddGuidelineDocument(docs, "none")
    \/ NewSystem(ValidKey, ValidHost)
    \/ \E query \in Queries, population \in QueryPopulations, k_arg \in KArgs :
           Retrieve(query, population, k_arg)
    \/ \E query \in UserQueries : ProcessQuery(query, "none")
    \/ NextCommand

SpecNoFailure == Init /\ [][NextNoFailure]_vars

\* ------------------------------------- the vector store called on its own
EmbeddingLists == SeqsUpTo({Encode(t) : t \in Texts}, MaxBatch)

\* PineconeVectorStore.add_documents(docs, embeddings) called directly
VectorStoreCall(docs, embeddings) ==
    /\ ret = Idle
    /\ store' = VectorStoreAddDocuments(store, docs, embeddings)
    /\ ret' = [op |-> "vector_store.add_documents", status |-> "ok",
               documents |-> docs, embeddings |-> embeddings, store_before |-> store]
    /\ UNCHANGED <<documents, bm25, constructed, adding, retrieving>>

\* The same call with index.upsert raising (there is a request only when the
\* zipped list is not empty)
VectorStoreCallRaises(docs, embeddings) ==
    /\ ret = Idle
    /\ Zip(docs, embeddings) # <<>>
    /\ ret' = [op |-> "vector_store.add_documents", status |-> "error",
               documents |-> docs, embeddings |-> embeddings, store_before |-> store]
    /\ UNCHANGED <<documents, bm25, store, constructed, adding, retrieving>>

NextVS ==
    \/ \E docs \in Batches, embeddings \in EmbeddingLists : VectorStoreCall(docs, embeddings)
    \/ \E docs \in Batches, embeddings \in EmbeddingLists :
           VectorStoreCallRaises(docs, embeddings)
    \/ NextCommand

SpecVS == Init /\ [][NextVS]_vars

\* =================================================================== claims
ChunkIds(docs) == {docs[i].chunk_id : i \in 1..Len(docs)}

\* The BM25 index was built on the document list as it is now
IndexCurrent ==
    bm25 = [i \in 1..Len(documents) |-> documents[i].page_content]

\* No failed call, restart or re-used identifier has left the two indices
\* apart: the identifiers are pairwise distinct and the vector store holds
\* exactly the listed documents
Consistent ==
    /\ IndexCurrent
    /\ ChunkIds(documents) = DOMAIN store
    /\ \A i, j \in 1..Len(documents) : i # j => documents[i].chunk_id # documents[j].chunk_id
    /\ \A i \in 1..Len(documents) : store[documents[i].chunk_id].metadata = documents[i]

\* C1: after add_documents([c]) has succeeded, a second successful
\* add_documents([c']) with the identifier of c leaves get_document_count()
\* as it was after the first.
C1_IdempotentReingestion ==
    [][(/\ ret = Idle
        /\ IndexCurrent
        /\ ret'.op = "add_documents"
        /\ ret'.status = "ok"
        /\ Len(ret'.batch) = 1
        /\ ret'.batch[1].chunk_id \in ChunkIds(documents))
       => Len(documents') = Len(documents)]_vars

\* C2: the chunk identifiers held by the lexical document list are those held
\* by the vector store, in every reachable state.
C2_Lockstep == ChunkIds(documents) = DOMAIN store

\* C3: a vector-store add_documents whose (non-empty) documents and embeddings
\* differ in length is rejected with an error and leaves the store unchanged.
C3_DimensionInvariant ==
    (/\ ret.op = "vector_store.add_documents"
     /\ ret.documents # <<>>
     /\ ret.embeddings # <<>>
     /\ Len(ret.documents) # Len(ret.embeddings))
    => (ret.status = "error" /\ store = ret.store_before)

\* C4: an add_documents that raises, or an add_guideline_document that returns
\* False, leaves the vector store, the document list and the BM25 index as
\* they were before the call.
C4_AllOrNothing ==
    [][(/\ ret = Idle
        /\ \/ (ret'.op = "add_documents" /\ ret'.status = "error")
           \/ (ret'.op = "add_guideline_document" /\ ~ret'.returned))
       => (documents' = documents /\ store' = store /\ bm25' = bm25)]_vars

\* ----------------------------------------------- the last retrieve, read back
RetrieveOk == ret.op = "retrieve" /\ ret.status = "ok"

\* The fused list and the filtered list of the retrieve that just returned
Fused == CombineResults(ret.dense, ret.sparse)
Filtered == ApplyFilters(Fused, ret.population)

HeadOf(e) == Leading100(e.doc.page_content)
HasHead(list, h) == \E i \in 1..Len(list) : HeadOf(list[i]) = h
FirstWith(list, h) ==
    list[CHOOSE i \in 1..Len(list) :
            HeadOf(list[i]) = h /\ \A j \in 1..(i - 1) : HeadOf(list[j]) # h]

\* C5: the fused list holds no two entries with the same leading 100
\* characters, and each entry is the first occurrence of its leading 100
\* characters (dense list first, then sparse), with that occurrence's
\* document, score and origin.
C5_FusionDedup ==
    RetrieveOk =>
        /\ \A i, j \in 1..Len(Fused) : i < j => HeadOf(Fused[i]) # HeadOf(Fused[j])
        /\ \A i \in 1..Len(Fused) :
              LET h == HeadOf(Fused[i])
                  first == IF HasHead(ret.dense, h) THEN FirstWith(ret.dense, h)
                           ELSE FirstWith(ret.sparse, h)
              IN  /\ HasHead(ret.dense, h) \/ HasHead(ret.sparse, h)
                  /\ Fused[i].source = (IF HasHead(ret.dense, h) THEN "dense" ELSE "sparse")
                  /\ Fused[i].score = first.score
                  /\ Fused[i].doc = first.doc

\* C5 witness: both lists repeat leading characters (the dense list within
\* itself, the sparse list those of a dense entry with another score) and one
\* fused entry comes from the sparse list.
C5_Witness ==
    /\ RetrieveOk
    /\ Consistent
    /\ \E i, j \in 1..Len(ret.dense) : i < j /\ HeadOf(ret.dense[i]) = HeadOf(ret.dense[j])
    /\ \E i \in 1..Len(ret.sparse) :
          /\ HasHead(ret.dense, HeadOf(ret.sparse[i]))
          /\ FirstWith(ret.dense, HeadOf(ret.sparse[i])).score # ret.sparse[i].score
    /\ \E i \in 1..Len(Fused) : Fused[i].source = "sparse"

\* C6: with a query population P other than general, every returned record is
\* tagged P or general; with no population or general, _apply_filters returns
\* its input unchanged.
C6_PopulationFilter ==
    RetrieveOk =>
        IF ret.population # None /\ ret.population # "general"
        THEN \A i \in 1..Len(ret.result) :
                 ret.result[i].metadata.population \in {ret.population, "general"}
        ELSE Filtered = Fused

\* C6 witness: a pediatric query whose top dense and top lexical match is a
\* pregnant chunk, answered without it.
C6_Witness ==
    /\ RetrieveOk
    /\ Consistent
    /\ ret.population = "pediatric"
    /\ ret.dense # <<>> /\ ret.dense[1].doc.population = "pregnant"
    /\ ret.sparse # <<>> /\ ret.sparse[1].doc.population = "pregnant"
    /\ ret.result # <<>>

\* C7: the list retrieve returns is non-increasing in blended score.
C7_ScoreOrdering ==
    RetrieveOk =>
        \A i \in 1..(Len(ret.result) - 1) :
            ret.result[i].relevance_score >= ret.result[i + 1].relevance_score

\* C7 witness: a returned list of strictly decreasing scores whose first
\* record came last in the filtered list.
C7_Witness ==
    /\ RetrieveOk
    /\ Consistent
    /\ Len(ret.result) >= 2
    /\ ret.result[1].relevance_score > ret.result[2].relevance_score
    /\ Filtered[Len(Filtered)].doc.page_content = ret.result[1].content

\* C8: a retrieve that returns while get_document_count() is 0 returns the
\* empty list (backend failures aside).
C8_EmptyCorpus ==
    (RetrieveOk /\ GetDocumentCount = 0) => ret.result = <<>>

\* The requested count of the retrieve that just returned, and whether it is
\* a count of at least 1 (the default count included)
RequestedK == EffectiveK(ret.k)
CountRequested == ret.k = NoK \/ ret.k[1] >= 1

\* C9: with n fused, deduplicated and filtered candidates and a requested
\* count k >= 1, retrieve returns exactly min(k, n) records, no two of them
\* the same.
C9_OverfetchThenTruncate ==
    (RetrieveOk /\ CountRequested) =>
        /\ Len(ret.result) = Min(RequestedK, Len(Filtered))
        /\ \A i, j \in 1..Len(ret.result) : i < j => ret.result[i] # ret.result[j]

\* C9 witness: k = 2 is requested, deduplication and the filter each drop a
\* candidate and leave one, and one record is returned.
C9_Witness ==
    /\ RetrieveOk
    /\ Consistent
    /\ ret.k = <<2>>
    /\ Len(Fused) < Len(ret.dense) + Len(ret.sparse)
    /\ Len(Filtered) < Len(Fused)
    /\ Len(Filtered) = 1
    /\ Len(ret.result) = 1

\* The chunks of the indexed corpus that pass the population filter of the
\* retrieve that just returned
PassingChunks ==
    {c \in {documents[i] : i \in 1..Len(documents)} :
        PassesPopulation([doc |-> c], ret.population)}

\* C10 as claimed: when the indexed corpus holds at least k chunks with
\* pairwise distinct leading 100 characters that pass the population filter,
\* retrieve with requested count k returns exactly k records.
C10_TopKFull_Claimed ==
    (/\ RetrieveOk
     /\ Consistent
     /\ CountRequested
     /\ Cardinality({Leading100(c.page_content) : c \in PassingChunks}) >= RequestedK)
    => Len(ret.result) = RequestedK

\* C10 as amended: when at least k of the fused, deduplicated candidates of
\* the two 2k-fetches pass the population filter, retrieve with requested
\* count k returns exactly k records, all passing the filter.
C10_TopKFull ==
    (/\ RetrieveOk
     /\ CountRequested
     /\ Len(Filtered) >= RequestedK)
    => /\ Len(ret.result) = RequestedK
       /\ \A i \in 1..Len(ret.result) :
              \E j \in 1..Len(Filtered) :
                  Filtered[j].doc.page_content = ret.result[i].content

\* C10 witness: k = 1 is requested, the filter drops a fetched candidate, more
\* than one candidate passes, and one record is returned.
C10_Witness ==
    /\ RetrieveOk
    /\ Consistent
    /\ ret.k = <<1>>
    /\ Len(Filtered) < Len(Fused)
    /\ Len(Filtered) > 1
    /\ Len(ret.result) = 1

\* ------------------------------------------------------------ C17 to C20
\* The candidates of both lists in scan order, tagged with their origin
Scanned ==
    [i \in 1..Len(ret.dense) |->
        [doc |-> ret.dense[i].doc, score |-> ret.dense[i].score, source |-> "dense"]]
    \o [i \in 1..Len(ret.sparse) |->
        [doc |-> ret.sparse[i].doc, score |-> ret.sparse[i].score, source |-> "sparse"]]

Heads(list) == {HeadOf(list[i]) : i \in 1..Len(list)}

\* C17: a candidate of the dense or sparse list is absent from the fused list
\* only if a candidate scanned earlier has the same leading 100 characters;
\* the leading-100-character contents of the fused list are those of both
\* input lists together.
C17_NoSilentLoss ==
    RetrieveOk =>
        /\ \A p \in 1..Len(Scanned) :
               (\A i \in 1..Len(Fused) : Fused[i] # Scanned[p])
                   => \E q \in 1..(p - 1) : HeadOf(Scanned[q]) = HeadOf(Scanned[p])
        /\ Heads(Fused) = Heads(ret.dense) \cup Heads(ret.sparse)

\* C17 witness: the dense list is not empty, a candidate was dropped as a
\* repeat, and a sparse candidate with new leading characters was kept.
C17_Witness ==
    /\ RetrieveOk
    /\ Consistent
    /\ ret.dense # <<>>
    /\ Len(Fused) < Len(Scanned)
    /\ \E i \in 1..Len(Fused) : Fused[i].source = "sparse"

\* C18: retrieve with an explicit count k >= 0 (0 included) returns at most
\* k records.
C18_ResultSizeBounded ==
    (RetrieveOk /\ ret.k # NoK) => Len(ret.result) <= ret.k[1]

\* The place of a returned record's passage in the filtered list
PlaceInFiltered(record) ==
    CHOOSE j \in 1..Len(Filtered) : Filtered[j].doc.page_content = record.content

\* C19: the blended score of every returned passage is 3 times its own
\* fusion-stage score plus 7 times the reranker's score for that passage
\* (0.3 and 0.7 in tenths).
C19_ScoreBlending ==
    RetrieveOk =>
        \A i \in 1..Len(ret.result) :
            /\ \E j \in 1..Len(Filtered) : Filtered[j].doc.page_content = ret.result[i].content
            /\ ret.result[i].relevance_score =
                   3 * Filtered[PlaceInFiltered(ret.result[i])].score
                   + 7 * CrossScore(ret.query, ret.result[i].content)

\* C19 witness: two returned passages with different fusion-stage scores and
\* different reranker scores, returned in the reverse of their filtered order.
C19_Witness ==
    /\ RetrieveOk
    /\ Consistent
    /\ Len(ret.result) >= 2
    /\ PlaceInFiltered(ret.result[1]) > PlaceInFiltered(ret.result[2])
    /\ Filtered[PlaceInFiltered(ret.result[1])].score
           # Filtered[PlaceInFiltered(ret.result[2])].score
    /\ CrossScore(ret.query, ret.result[1].content)
           # CrossScore(ret.query, ret.result[2].content)

\* C20: of two returned records with equal blended score, the one that came
\* earlier in the fused and filtered order comes earlier in the result.
C20_StableTies ==
    RetrieveOk =>
        \A i, j \in 1..Len(ret.result) :
            (i < j /\ ret.result[i].relevance_score = ret.result[j].relevance_score)
                => PlaceInFiltered(ret.result[i]) < PlaceInFiltered(ret.result[j])

\* C20 witness: two returned records tie, and the sort has moved them ahead
\* of a record that came first in the filtered list.
C20_Witness ==
    /\ RetrieveOk
    /\ Consistent
    /\ Len(ret.result) >= 3
    /\ ret.result[1].relevance_score = ret.result[2].relevance_score
    /\ PlaceInFiltered(ret.result[3]) = 1

\* ------------------------------------------------------------ C13, C14
\* C13: a constructor called with a missing or empty API key or host raises,
\* has created neither the client nor the index handle, and leaves the
\* process without a system, so that no call on a system follows.
C13_FailFastConfiguration ==
    [][/\ (ret'.op = "new_system" /\ (Falsy(ret'.api_key) \/ Falsy(ret'.host)))
           => (ret'.status = "error" /\ ~ret'.client /\ ~ret'.index /\ ~constructed')
       /\ ~constructed => ret'.op \in {"idle", "new_system"}]_vars

\* C13 witness: a constructor given a key and an empty host has raised.
C13_Witness ==
    /\ ret.op = "new_system"
    /\ ret.api_key = ValidKey
    /\ ret.host = ""
    /\ ret.status = "error"
    /\ store # EmptyStore

\* C14: on one MedicalRetrievalSystem (all steps but a construction), the
\* document list only grows: every listed chunk keeps its index, content and
\* metadata, so get_document_count() never decreases.
C14_AppendOnly ==
    [][ret'.op # "new_system" =>
          /\ Len(documents') >= Len(documents)
          /\ \A i \in 1..Len(documents) : documents'[i] = documents[i]]_vars

\* C14 witness: a batch re-using a listed identifier was added and the chunk
\* listed under that identifier before is still listed ahead of the batch.
C14_Witness ==
    /\ ret.op = "add_documents"
    /\ ret.status = "ok"
    /\ Len(documents) > Len(ret.batch)
    /\ \E i \in 1..(Len(documents) - Len(ret.batch)), j \in 1..Len(ret.batch) :
          /\ documents[i].chunk_id = ret.batch[j].chunk_id
          /\ documents[i] # ret.batch[j]

\* ------------------------------------- add_documents and retrieve by steps
\* The statements of add_documents and of retrieve taken one at a time, for
\* callers that run one add_documents and one retrieve on the same system at
\* once. The batches carry identifiers that are new to the namespace and no
\* call raises, so that only the interleaving is at work.

\* The statement that follows a stage of retrieve, with the filter moved in
\* front of the fusion
StageAfterFilterFirst(stage) ==
    CASE stage = "start" -> "dense"
      [] stage = "dense" -> "sparse"
      [] stage = "sparse" -> "filter"
      [] stage = "filter" -> "combine"
      [] stage = "combine" -> "rerank"
      [] stage = "rerank" -> "truncate"
      [] OTHER -> "none"

\* The statement that follows a stage of retrieve (steps 1 to 6, in the
\* order the function body lists them)
StageAfter(stage) ==
    CASE stage = "start" -> "dense"
      [] stage = "dense" -> "sparse"
      [] stage = "sparse" -> "combine"
      [] stage = "combine" -> "filter"
      [] stage = "filter" -> "rerank"
      [] stage = "rerank" -> "truncate"
      [] OTHER -> "none"

\* The identifiers of the batch are pairwise distinct and new
FreshBatch(docs) ==
    /\ docs # <<>>
    /\ \A i, j \in 1..Len(docs) : i # j => docs[i].chunk_id # docs[j].chunk_id
    /\ \A i \in 1..Len(docs) : docs[i].chunk_id \notin DOMAIN store

\* add_documents up to vector_store.add_documents (lines 150 to 156)
AddUpsert(docs) ==
    /\ constructed
    /\ adding = NoAdd
    /\ FreshBatch(docs)
    /\ Len(documents) + Len(docs) <= MaxDocs
    /\ store' = VectorStoreAddDocuments(store, docs,
                    [i \in 1..Len(docs) |-> Encode(docs[i].page_content)])
    /\ adding' = [pc |-> "extend", batch |-> docs]
    /\ UNCHANGED <<documents, bm25, ret, constructed, retrieving>>

\* self.documents.extend(documents) (line 159)
AddExtend ==
    /\ adding.pc = "extend"
    /\ documents' = documents \o adding.batch
    /\ adding' = [adding EXCEPT !.pc = "rebuild"]
    /\ UNCHANGED <<bm25, store, ret, constructed, retrieving>>

\* self.bm25 = BM25Okapi(tokenized_docs) (lines 161 to 162), and the return
AddRebuild ==
    /\ adding.pc = "rebuild"
    /\ bm25' = [i \in 1..Len(documents) |-> documents[i].page_content]
    /\ adding' = NoAdd
    /\ UNCHANGED <<documents, store, ret, constructed, retrieving>>

\* retrieve is entered: k and query are bound (lines 173 to 174)
RetrieveStart(query, population, k_arg) ==
    /\ ret = Idle
    /\ constructed
    /\ retrieving = NoRetrieve
    /\ retrieving' = [pc |-> StageAfter("start"), query |-> query,
                      population |-> population, k |-> k_arg,
                      dense |-> <<>>, sparse |-> <<>>, combined |-> <<>>,
                      filtered |-> <<>>, reranked |-> <<>>, log |-> <<>>,
                      filter_in |-> <<>>, predict_in |-> <<>>,
                      seen_store |-> EmptyStore, seen_documents |-> <<>>,
                      seen_bm25 |-> NoBm25]
    /\ UNCHANGED <<documents, bm25, store, ret, constructed, adding>>

\* Step 1: _dense_retrieval reads the vector store
StepDense ==
    /\ retrieving.pc = "dense"
    /\ \E dense_docs \in DenseRetrieval(retrieving.query, EffectiveK(retrieving.k) * 2) :
           retrieving' = [retrieving EXCEPT !.dense = dense_docs,
                                            !.seen_store = store,
                                            !.log = Append(@, "dense"),
                                            !.pc = StageAfter("dense")]
    /\ UNCHANGED <<documents, bm25, store, ret, constructed, adding>>

\* Step 2: _sparse_retrieval reads self.bm25 and self.documents
StepSparse ==
    /\ retrieving.pc = "sparse"
    /\ \E sparse_docs \in SparseRetrieval(retrieving.query, EffectiveK(retrieving.k) * 2) :
           retrieving' = [retrieving EXCEPT !.sparse = sparse_docs,
                                            !.seen_documents = documents,
                                            !.seen_bm25 = bm25,
                                            !.log = Append(@, "sparse"),
                                            !.pc = StageAfter("sparse")]
    /\ UNCHANGED <<documents, bm25, store, ret, constructed, adding>>

\* Step 3: _combine_results
StepCombine ==
    /\ retrieving.pc = "combine"
    /\ retrieving' = [retrieving EXCEPT
                          !.combined = CombineResults(retrieving.dense, retrieving.sparse),
                          !.log = Append(@, "combine"),
                          !.pc = StageAfter("combine")]
    /\ UNCHANGED <<documents, bm25, store, ret, constructed, adding>>

\* Step 4: _apply_filters on combined_docs
StepFilter ==
    /\ retrieving.pc = "filter"
    /\ retrieving' = [retrieving EXCEPT
                          !.filter_in = retrieving.combined,
                          !.filtered = ApplyFilters(retrieving.combined,
                                                    retrieving.population),
                          !.log = Append(@, "filter"),
                          !.pc = StageAfter("filter")]
    /\ UNCHANGED <<documents, bm25, store, ret, constructed, adding>>

\* Step 5: _rerank on filtered_docs; the pairs handed to reranker.predict are
\* those of filtered_docs
StepRerank ==
    /\ retrieving.pc = "rerank"
    /\ retrieving' = [retrieving EXCEPT
                          !.predict_in = retrieving.filtered,
                          !.reranked = Rerank(retrieving.query, retrieving.filtered),
                          !.log = Append(@, "rerank"),
                          !.pc = StageAfter("rerank")]
    /\ UNCHANGED <<documents, bm25, store, ret, constructed, adding>>

\* Step 6: reranked_docs[:k] converted, and the return
StepTruncate ==
    /\ retrieving.pc = "truncate"
    /\ ret = Idle
    /\ ret' = [op |-> "retrieve", status |-> "ok", query |-> retrieving.query,
               population |-> retrieving.population, k |-> retrieving.k,
               dense |-> retrieving.dense, sparse |-> retrieving.sparse,
               result |-> ToRetrievedDocuments(retrieving.reranked,
                                               EffectiveK(retrieving.k)),
               log |-> Append(retrieving.log, "truncate"),
               filter_in |-> retrieving.filter_in,
               predict_in |-> retrieving.predict_in,
               seen_store |-> retrieving.seen_store,
               seen_documents |-> retrieving.seen_documents,
               seen_bm25 |-> retrieving.seen_bm25]
    /\ retrieving' = NoRetrieve
    /\ UNCHANGED <<documents, bm25, store, constructed, adding>>

NextSteps ==
    \/ \E docs \in PdfBatches : AddUpsert(docs)
    \/ AddExtend
    \/ AddRebuild
    \/ \E query \in Queries, population \in QueryPopulations, k_arg \in KArgs :
           RetrieveStart(query, population, k_arg)
    \/ StepDense
    \/ StepSparse
    \/ StepCombine
    \/ StepFilter
    \/ StepRerank
    \/ StepTruncate
    \/ NextCommand

SpecSteps == Init /\ [][NextSteps]_vars

\* ------------------------------------------------------------ C12, C16
\* A retrieve that ran by steps has returned
SteppedRetrieve == ret.op = "retrieve" /\ "log" \in DOMAIN ret

\* The vector store, document list and lexical index a retrieve read belong
\* to one state of the collection: the same documents on both sides, and the
\* lexical index built from that document list
ObservedTogether(seen_store, seen_documents, seen_bm25) ==
    /\ seen_bm25 = [i \in 1..Len(seen_documents) |-> seen_documents[i].page_content]
    /\ {seen_documents[i].chunk_id : i \in 1..Len(seen_documents)} = DOMAIN seen_store

\* C12: whatever the interleaving of one add_documents with a retrieve, the
\* retrieve reads either the state before the batch on both sides or the
\* state after it on both sides.
C12_AtomicVisibility ==
    SteppedRetrieve => ObservedTogether(ret.seen_store, ret.seen_documents, ret.seen_bm25)

\* The contents a list of scored documents leads with
HeadsOf(list) == {Leading100(list[i].doc.page_content) : i \in 1..Len(list)}

\* C16: a retrieve runs dense search, lexical search, fusion, population
\* filter, rerank and truncation once each in that order; the filter reads
\* the deduplicated fusion of the two result lists, and the reranker is given
\* exactly the candidates the filter let through.
C16_FixedStageOrder ==
    SteppedRetrieve =>
        /\ ret.log = <<"dense", "sparse", "combine", "filter", "rerank", "truncate">>
        /\ HeadsOf(ret.filter_in) = HeadsOf(ret.dense) \cup HeadsOf(ret.sparse)
        /\ \A i, j \in 1..Len(ret.filter_in) :
               i # j => Leading100(ret.filter_in[i].doc.page_content)
                            # Leading100(ret.filter_in[j].doc.page_content)
        /\ \A i \in 1..Len(ret.predict_in) :
               /\ \E j \in 1..Len(ret.filter_in) : ret.filter_in[j] = ret.predict_in[i]
               /\ \/ ret.population \in {None, "general"}
                  \/ ret.predict_in[i].doc.population \in {ret.population, "general"}
        /\ \A i \in 1..Len(ret.result) :
               \E j \in 1..Len(ret.predict_in) :
                   ret.predict_in[j].doc.page_content = ret.result[i].content

\* C16 witness: the two searches returned a common passage, the filter
\* dropped a candidate of the fused list, and the reranker scored the rest.
C16_Witness ==
    /\ SteppedRetrieve
    /\ Len(ret.dense) + Len(ret.sparse) > Len(ret.filter_in)
    /\ Len(ret.filter_in) > Len(ret.predict_in)
    /\ ret.predict_in # <<>>
    /\ ret.result # <<>>

\* ------------------------------------------------------------ C11, C15
\* The backend calls of retrieve
BackendFailures == {"encode", "query", "predict"}

\* C11: a retrieve in which the embedding model, the index query or the
\* reranker raises ends in that error, not in a returned list; a
\* process_query in which one of them raises gives the system-error
\* response, not the no-evidence response.
C11_BackendFailurePropagates ==
    /\ (ret.op = "retrieve" /\ "raised" \in DOMAIN ret) => ret.status = "error"
    /\ (ret.op = "process_query" /\ ret.fault \in BackendFailures)
           => ret.response.kind = "error"

\* C11 witness: the reranker has raised in a process_query over a corpus that
\* is indexed on both sides.
C11_Witness ==
    /\ ret.op = "process_query"
    /\ ret.fault = "predict"
    /\ ret.response.kind = "error"
    /\ Consistent
    /\ documents # <<>>

\* C15: every process_query returns a response with an answer, citations and
\* a confidence score, whatever raised inside it, and POST /query answers 200.
C15_AlwaysResponds ==
    ret.op = "process_query" =>
        /\ ~ret.raised
        /\ ret.response.kind \in {"conversational", "refusal", "no_evidence", "answer", "error"}
        /\ {"answer", "citations", "confidence_score"} \subseteq DOMAIN ret.response
        /\ ret.response.query = ret.query
        /\ ret.http_status = 200

\* C15 witness: answer generation has raised after a retrieve that returned
\* documents, and the error response was returned.
C15_Witness ==
    /\ ret.op = "process_query"
    /\ ret.fault = "generate"
    /\ ~ret.raised
    /\ ret.response.kind = "error"
    /\ ret.http_status = 200

\* ---------------------------------------------------------------- C21
\* What a backend call may answer when it is free to order equal scores
\* differently from one call to the next
AnswersAnew(previous, admissible) == admissible

\* What a deterministic backend call (index.query on the unchanged namespace,
\* np.argsort on the same score array) answers to the request it has answered
\* before: the same list, provided the present state still admits it
AnswersAgain(previous, admissible) == {a \in admissible : a = previous}

\* retrieve called once more with the arguments of the call that has just
\* returned, nothing having run in between
RetrieveAgain ==
    /\ RetrieveOk
    /\ "dense" \in DOMAIN ret
    /\ constructed
    /\ LET k == EffectiveK(ret.k)
       IN  \E dense_docs \in AnswersAgain(ret.dense, DenseRetrieval(ret.query, k * 2)),
              sparse_docs \in AnswersAgain(ret.sparse, SparseRetrieval(ret.query, k * 2)) :
            /\ ret' = [op |-> "retrieve", status |-> "ok", query |-> ret.query,
                       population |-> ret.population, k |-> ret.k,
                       dense |-> dense_docs, sparse |-> sparse_docs,
                       result |-> RetrievePipeline(ret.query, ret.population, k,
                                                   dense_docs, sparse_docs),
                       previous |-> ret.result]
            /\ documents' = RetrieveLeaves(dense_docs).documents
            /\ bm25' = RetrieveLeaves(dense_docs).bm25
            /\ store' = RetrieveLeaves(dense_docs).store
    /\ UNCHANGED <<constructed, adding, retrieving>>

NextRepeat ==
    \/ \E docs \in Batches : \E fail \in FailuresOfAdd(docs) : AddDocuments(docs, fail)
    \/ \E query \in Queries, population \in QueryPopulations, k_arg \in KArgs :
           Retrieve(query, population, k_arg)
    \/ RetrieveAgain
    \/ NextCommand

SpecRepeat == Init /\ [][NextRepeat]_vars

C22_RetrieveNoEffect ==
    [][ret'.op = "retrieve" =>
           /\ documents' = documents
           /\ bm25' = bm25
           /\ store' = store
           /\ <<constructed, adding, retrieving>>' = <<constructed, adding, retrieving>>]_vars

\* C22 witness: a retrieve has returned records of both paths from a corpus
\* of two documents or more.
C22_Witness ==
    /\ RetrieveOk
    /\ ret.dense # <<>>
    /\ ret.sparse # <<>>
    /\ ret.result # <<>>
    /\ Len(documents) >= 2

\* ---------------------------------------------------------------- C23
\* Chunk metadata with all its fields, as ChunkMetadata.dict() gives it. An
\* optional string is None or the string, an optional number or datetime is
\* <<>> or <<value>>, and an Enum member is <<class, value>>.
Absent == <<>>
Some(x) == <<x>>

\* datetime values, datetime.isoformat and datetime.fromisoformat
Datetimes == {[date |-> "2024-01-15", time |-> "10:30:00"]}
IsoFormat(d) == d.date \o "T" \o d.time
FromIsoFormat(text) == CHOOSE d \in Datetimes : IsoFormat(d) = text

\* GuidelineMetadata records
GuidelineMetadatas ==
    [guideline_name : {"", "HIV Guideline"},
     organization : {"", "WHO"},
     publication_year : {0, 2021},
     version : {None, "", "v2"},
     country : {None, "KE"},
     specialty : {None},
     last_updated : {Absent} \cup {Some(d) : d \in Datetimes}]

\* ChunkMetadata records
ChunkMetadatas ==
    [guideline : {"", "HIV Guideline", "ART Guideline"},
     section : {"dosing"},
     subsection : {None},
     population : {<<"PopulationType", "general">>, <<"PopulationType", "pregnant">>},
     page_number : {Absent, Some(0), Some(3)},
     chunk_id : {"g_dosing_0"},
     guideline_metadata : GuidelineMetadatas]

\* The chunk metadata process_pdf makes: guideline is the guideline's name, a
\* title or file stem; the organization is a known one or "Unknown"; the year
\* is one found in the text or the current one
ProcessedMetadatas ==
    {m \in ChunkMetadatas :
        /\ m.guideline = m.guideline_metadata.guideline_name
        /\ m.guideline # ""
        /\ m.guideline_metadata.organization # ""
        /\ m.guideline_metadata.publication_year # 0}

TopKeys == {"guideline", "section", "subsection", "population", "page_number", "chunk_id"}
SubKeys == {"guideline_name", "organization", "publication_year", "version", "country",
            "specialty", "last_updated"}

\* f"{key}_{sub_key}" for key "guideline_metadata"
FlatKey(sub_key) == "guideline_metadata_" \o sub_key

\* value is None
IsNone(key, value) ==
    IF key \in {"page_number", "last_updated"} THEN value = Absent
    ELSE IF key \in {"subsection", "version", "country", "specialty"} THEN value = None
    ELSE FALSE

\* The primitive handle_value stores: Enum.value, isoformat() of a datetime,
\* and a string or number as it is
Primitive(key, value) ==
    IF key = "population" THEN value[2]
    ELSE IF key = "last_updated" THEN IsoFormat(value[1])
    ELSE IF key = "page_number" THEN value[1]
    ELSE value

\* _sanitize_metadata: None values are left out, the nested dict is
\* flattened under prefixed keys
SanitizeMetadata(metadata) ==
    LET gm == metadata.guideline_metadata
        top == {k \in TopKeys : ~IsNone(k, metadata[k])}
        sub == {k \in SubKeys : ~IsNone(k, gm[k])}
    IN  [key \in top \cup {FlatKey(k) : k \in sub} |->
            IF key \in top THEN Primitive(key, metadata[key])
            ELSE LET k == CHOOSE k \in sub : FlatKey(k) = key
                 IN  Primitive(k, gm[k])]

\* a or b for strings, a being dict.get(key)
OrString(dict, key, fallback) ==
    IF key \in DOMAIN dict /\ dict[key] # "" THEN dict[key] ELSE fallback

\* dict.get(key) for an optional string field
GetString(dict, key) == IF key \in DOMAIN dict THEN dict[key] ELSE None

\* similarity_search_with_score, lines 90 to 114: the metadata of the
\* Document it returns, for a match that carries the flattened metadata;
\* now_year is datetime.now().year
RehydrateMetadata(flat, now_year) ==
    LET gm_fields == [k \in {k \in SubKeys : FlatKey(k) \in DOMAIN flat} |-> flat[FlatKey(k)]]
        md == [k \in {k \in TopKeys : k \in DOMAIN flat} |-> flat[k]]
        guideline_meta ==
            [guideline_name |->
                 OrString(md, "guideline",
                          OrString(gm_fields, "guideline_name", "Unknown Guideline")),
             organization |-> OrString(gm_fields, "organization", "Unknown"),
             publication_year |->
                 (IF "publication_year" \in DOMAIN gm_fields
                        /\ gm_fields["publication_year"] # 0
                  THEN gm_fields["publication_year"] ELSE now_year),
             version |-> GetString(gm_fields, "version"),
             country |-> GetString(gm_fields, "country"),
             specialty |-> GetString(gm_fields, "specialty"),
             last_updated |->
                 (IF "last_updated" \in DOMAIN gm_fields /\ gm_fields["last_updated"] # ""
                  THEN Some(FromIsoFormat(gm_fields["last_updated"])) ELSE Absent)]
    IN  [md |-> md, guideline_metadata |-> guideline_meta]

\* ChunkMetadata(**doc.metadata) (retrieve, line 194): absent optional fields
\* take their defaults and the population string becomes the Enum member
BuildChunkMetadata(metadata) ==
    LET md == metadata.md
    IN  [guideline |-> md["guideline"],
         section |-> md["section"],
         subsection |-> GetString(md, "subsection"),
         population |-> (IF "population" \in DOMAIN md
                         THEN <<"PopulationType", md["population"]>>
                         ELSE <<"PopulationType", "general">>),
         page_number |-> (IF "page_number" \in DOMAIN md
                          THEN Some(md["page_number"]) ELSE Absent),
         chunk_id |-> md["chunk_id"],
         guideline_metadata |-> metadata.guideline_metadata]

\* The years datetime.now().year may give
CurrentYears == {2026, 2027}

\* A chunk's metadata is flattened for the upsert, and read back by a search
MetadataRoundTrip(metadata, now_year) ==
    /\ ret = Idle
    /\ LET flat == SanitizeMetadata(metadata)
       IN  ret' = [op |-> "metadata_round_trip", original |-> metadata,
                   processed |-> (metadata \in ProcessedMetadatas),
                   rebuilt |-> BuildChunkMetadata(RehydrateMetadata(flat, now_year))]
    /\ UNCHANGED <<documents, bm25, store, constructed, adding, retrieving>>

NextMetadata ==
    \/ \E metadata \in ChunkMetadatas, now_year \in CurrentYears :
           MetadataRoundTrip(metadata, now_year)
    \/ NextCommand

SpecMetadata == Init /\ [][NextMetadata]_vars

\* C23: every chunk metadata record that is flattened by _sanitize_metadata
\* and rehydrated as similarity_search_with_score does gives a ChunkMetadata
\* equal to the original.
C23_MetadataReversible ==
    ret.op = "metadata_round_trip" => ret.rebuilt = ret.original

\* ---------------------------------------------------------------- C24
\* C24: every record retrieve returns has rerank_score equal to
\* relevance_score, and both are the blended value _rerank computed for that
\* passage from its fusion-stage score and its reranker score.
C24_BothScoresBlended ==
    RetrieveOk =>
        \A i \in 1..Len(ret.result) :
            /\ ret.result[i].rerank_score = ret.result[i].relevance_score
            /\ \E j \in 1..Len(Filtered) :
                   /\ Filtered[j].doc.page_content = ret.result[i].content
                   /\ ret.result[i].rerank_score =
                          FinalScore(Filtered[j].score,
                                     CrossScore(ret.query, ret.result[i].content))

\* C24 witness: two records or more are returned, and for one of them the
\* blended value differs from the reranker's own score (ScoreOne hundredths
\* to the tenth).
C24_Witness ==
    /\ RetrieveOk
    /\ Len(ret.result) >= 2
    /\ \E i \in 1..Len(ret.result) :
           /\ ret.result[i].rerank_score # 0
           /\ ret.result[i].rerank_score
                  # ScoreOne * CrossScore(ret.query, ret.result[i].content)

\* ---------------------------------------------------------------- C25
\* How often a component occurs in a list of calls
Occurrences(calls, name) == Cardinality({i \in 1..Len(calls) : calls[i] = name})

\* The components process_query called after the analysis
CalledAfterAnalysis == {ret.calls[i] : i \in 2..Len(ret.calls)}

\* C25: process_query calls retrieve at most once, and only after the query
\* analysis has returned a non-conversational intent with is_safe true; for a
\* query flagged unsafe or classified conversational it calls neither
\* retrieve nor generate_answer nor validate_response.
C25_ScreeningFirst ==
    ret.op = "process_query" =>
        LET query_analysis == AnalyzeQuery(ret.query)
            screened_out ==
                query_analysis.intent = "conversational" \/ ~query_analysis.is_safe
        IN  /\ ret.calls # <<>>
            /\ ret.calls[1] = "analyze_query"
            /\ Occurrences(ret.calls, "retrieve") <= 1
            /\ "retrieve" \in CalledAfterAnalysis
                   => ret.fault # "analysis" /\ ~screened_out
            /\ screened_out => CalledAfterAnalysis = {}

\* C25 witness: a query flagged unsafe was answered after the analysis alone,
\* on a corpus from which a retrieve would have returned documents.
C25_Witness ==
    /\ ret.op = "process_query"
    /\ ~AnalyzeQuery(ret.query).is_safe
    /\ ret.fault = "none"
    /\ ret.calls = <<"analyze_query">>
    /\ ret.response.kind = "refusal"
    /\ Consistent
    /\ documents # <<>>

\* ---------------------------------------------------------------- C26
\* C26: whatever retrieve returns, the response to a query classified as
\* diagnosis or treatment has safety_check.is_safe false, no citations, no
\* retrieved documents and confidence 0.
C26_DiagnosisRefused ==
    (/\ ret.op = "process_query"
     /\ ret.fault = "none"
     /\ AnalyzeQuery(ret.query).intent \in {"diagnosis", "treatment"})
        => /\ ~ret.response.safety_check.is_safe
           /\ ret.response.citations = <<>>
           /\ ret.response.retrieved_documents = <<>>
           /\ ret.response.confidence_score = 0

\* ---------------------------------------------------------------- C27
\* C27: a response of process_query that carries citations or retrieved
\* documents has safety_check.is_safe true, and its safety check is the one
\* validate_response gave for the answer generated from those documents;
\* refusal, no-evidence, conversational and error responses carry neither
\* citations nor retrieved documents.
C27_EvidenceOnlyWhenValidated ==
    ret.op = "process_query" =>
        LET response == ret.response
            exposes == response.citations # <<>> \/ response.retrieved_documents # <<>>
        IN  /\ exposes =>
                   /\ response.safety_check.is_safe
                   /\ Occurrences(ret.calls, "validate_response") = 1
                   /\ response.safety_check =
                          ValidateResponse(AnalyzeQuery(ret.query),
                                           SimpleAnswer(ret.query,
                                                        response.retrieved_documents))
            /\ response.kind \in {"refusal", "no_evidence", "conversational", "error"}
                   => ~exposes

\* C27 witness: an answer was returned with citations and two retrieved
\* documents or more, after validation.
C27_Witness ==
    /\ ret.op = "process_query"
    /\ ret.response.kind = "answer"
    /\ ret.response.citations # <<>>
    /\ Len(ret.response.retrieved_documents) >= 2
    /\ ret.response.safety_check.is_safe

\* ---------------------------------------------------------------- C28
\* C28: in every response of process_query, safety_check.is_safe is true
\* exactly when safety_check.violations is empty.
C28_FlagAgreesWithViolations ==
    ret.op = "process_query" =>
        (ret.response.safety_check.is_safe <=> ret.response.safety_check.violations = <<>>)

\* ---------------------------------------------------------------- C29
\* sub is seq with some elements left out, the others in their order
RECURSIVE IsSubsequence(_, _)
IsSubsequence(sub, seq) ==
    IF sub = <<>> THEN TRUE
    ELSE IF seq = <<>> THEN FALSE
    ELSE IF Head(sub) = Head(seq) THEN IsSubsequence(Tail(sub), Tail(seq))
    ELSE IsSubsequence(sub, Tail(seq))

\* The (document, score) pairs of the fused entries that came from one path
FromPath(list, source) ==
    LET entries == SelectSeq(list, LAMBDA e : e.source = source)
    IN  [i \in 1..Len(entries) |-> [doc |-> entries[i].doc, score |-> entries[i].score]]

\* C29: in the fused list every dense-origin entry precedes every
\* sparse-origin entry, the dense-origin entries are in the order of the
\* dense list and the sparse-origin entries in the order of the sparse list;
\* the filtered list keeps the order of the fused list.
C29_PathOrderPreserved ==
    RetrieveOk =>
        /\ \A i, j \in 1..Len(Fused) :
               i < j => ~(Fused[i].source = "sparse" /\ Fused[j].source = "dense")
        /\ IsSubsequence(FromPath(Fused, "dense"), ret.dense)
        /\ IsSubsequence(FromPath(Fused, "sparse"), ret.sparse)
        /\ IsSubsequence(Filtered, Fused)

\* C29 witness: the fused list holds two dense-origin entries followed by a
\* sparse-origin entry, and the filter drops one entry and keeps two.
C29_Witness ==
    /\ RetrieveOk
    /\ Len(FromPath(Fused, "dense")) >= 2
    /\ Len(FromPath(Fused, "sparse")) >= 1
    /\ Len(Filtered) >= 2
    /\ Len(Filtered) < Len(Fused)

\* ---------------------------------------------------------------- C30
\* C30: the confidence_score of every response of process_query lies
\* between 0 and 1 (0 and 100 hundredths).
C30_ConfidenceInRange ==
    ret.op = "process_query" =>
        /\ ret.response.confidence_score >= 0
        /\ ret.response.confidence_score <= 100

====
